---- MODULE Spec2Model ----
(***************************************************************************)
(* A model of game.py (Breakout on a tkinter canvas).                      *)
(*                                                                         *)
(* Coordinates.  tkinter keeps item coordinates as floats; the program     *)
(* produces halves (x + 37.5, width / 2).  Every coordinate of the model   *)
(* is therefore an integer number of HALF pixels: Px(n) is n pixels.       *)
(*                                                                         *)
(* Optional values.  A Python attribute that is either None or a value v   *)
(* is the sequence << >> (None) or << v >>.                                *)
(*                                                                         *)
(* Scheduling.  tkinter's mainloop runs one callback at a time: a key      *)
(* binding or an after-callback runs to completion before the next event   *)
(* is taken.  Each action below is one such callback, whole.               *)
(***************************************************************************)
EXTENDS Integers, Sequences, FiniteSets, TLC

VARIABLES
    lives,        \* Game.lives
    hud,          \* Game.hud: None or the item of the lives text
    text,         \* Game.text: None or the item of the start prompt
    texts,        \* the text items on the canvas: item |-> what it shows
    created,      \* the number of items the canvas has created (its last id)
    space_bound,  \* whether the canvas has a binding for <space>
    pending,      \* the after-callbacks registered and not yet run, in order
    paddle,       \* the coordinates of the paddle's rectangle
    paddle_ball,  \* Paddle.ball: None or the item of the ball it carries
    ball,         \* Game.ball: None or the Ball object
    ovals,        \* the ball items on the canvas
    hits,         \* Brick.hits of every brick
    bricks,       \* the bricks on the canvas (the items tagged 'brick')
    raised,       \* whether the last callback ended in an uncaught exception
    last          \* what the most recent run of game_loop did

vars == << lives, hud, text, texts, created, space_bound, pending,
           paddle, paddle_ball, ball, ovals, hits, bricks, raised, last >>

----------------------------------------------------------------------------
(* Bounds of the model *)

\* Game.width (the canvas option width) in pixels.  The program sets 600;
\* the model plays on a narrower canvas so that every brick configuration,
\* a win included, is reached.
width == 120

\* How many slide steps the ball may be carried away from the paddle's
\* centre while it waits on the paddle (the program sets no limit).  Four
\* steps from a paddle at a wall take the ball's edge past that wall.
MaxCarry == 4

----------------------------------------------------------------------------
(* Program constants, in pixels as the source writes them *)

InitLives == 3
height == 400
PaddleY == 326
PaddleWidth == 80
PaddleHeight == 10
BrickFirst == 5
BrickStep == 75
BrickWidth == 75
BrickHeight == 20
BallY == 310
radius == 10
BallSpeed == 10
SlideStep == 10
TickDelay == 50
ResetDelay == 1000
highlightthickness == 1
OutlineWidth == 1

Px(n) == 2 * n

None == << >>
Some(v) == << v >>

\* Tk: a widget's width is its width option plus border and highlight ring
\* on both sides (a Canvas has border 0 and a highlight ring by default).
winfo_width == Px(width + 2 * highlightthickness)

\* Game.__init__: for x in range(5, self.width - 5, 75)
BrickColumns == { x \in 0..width : /\ x >= BrickFirst
                                   /\ x < width - BrickFirst
                                   /\ (x - BrickFirst) % BrickStep = 0 }

\* The three add_brick calls of one column: y |-> hits
BrickRows == { <<50, 3>>, <<70, 2>>, <<90, 1>> }

\* A brick is named by the x of its column and the y of its row.
Bricks == { <<x, r[1]>> : x \in BrickColumns, r \in BrickRows }

InitHits(b) == (CHOOSE r \in BrickRows : r[1] = b[2])[2]

\* Brick.__init__: the rectangle around (x + 37.5, y)
BrickPos(b) == << Px(b[1]), Px(b[2]) - BrickHeight,
                  Px(b[1]) + 2 * BrickWidth, Px(b[2]) + BrickHeight >>

\* Paddle.__init__: the rectangle around (width / 2, 326)
PaddleInit == << width - PaddleWidth, Px(PaddleY) - PaddleHeight,
                 width + PaddleWidth, Px(PaddleY) + PaddleHeight >>

----------------------------------------------------------------------------
(* The canvas *)

\* GameObject.move on a coordinate list: canvas.move(item, x, y)
move(pos, x, y) == << pos[1] + x, pos[2] + y, pos[3] + x, pos[4] + y >>

\* Tk's RectToArea: a rectangle drawn with an outline (the default: black,
\* 1 pixel wide) reaches half the outline's width beyond its coordinates, and
\* an area overlaps it unless it lies entirely to one side.
RectToArea(rect, area) ==
    ~ \/ area[3] <= rect[1] - OutlineWidth
      \/ area[1] >= rect[3] + OutlineWidth
      \/ area[4] <= rect[2] - OutlineWidth
      \/ area[2] >= rect[4] + OutlineWidth

\* The objects of Game.items: the paddle and every brick ever added.  A
\* deleted brick stays in the dict; the canvas no longer finds it.
PaddleObj == [kind |-> "Paddle", at |-> <<0, 0>>]
BrickObj(b) == [kind |-> "Brick", at |-> b]

\* GameObject.get_position of an object of Game.items
get_position(g, obj) ==
    IF obj.kind = "Paddle" THEN g.paddle ELSE BrickPos(obj.at)

\* Game.check_collisions: canvas.find_overlapping(*ball_pos), kept to the
\* keys of Game.items.  The ball and the texts are no keys of it.  The order
\* of the list never matters to Ball.collide, so it is a set here.
find_overlapping(g, area) ==
    { obj \in {PaddleObj} \cup { BrickObj(b) : b \in g.bricks } :
        RectToArea(get_position(g, obj), area) }

----------------------------------------------------------------------------
(* Brick *)

\* Brick.hit without the delete at zero
hit_keeps(g, b) ==
    LET h == g.hits[b] - 1
    IN  [g EXCEPT !.hits[b] = h, !.raised = h \notin 0..3]

\* Brick.hit.  Brick.COLORS has the keys 1, 2 and 3: any other count that
\* is not 0 raises KeyError.
hit(g, b) ==
    LET h == g.hits[b] - 1
    IN  [g EXCEPT !.hits[b] = h,
                  !.bricks = IF h = 0 THEN g.bricks \ {b} ELSE g.bricks,
                  !.raised = h \notin 0..3]

RECURSIVE hit_all(_, _)
\* Ball.collide, lines 174-176: hit every Brick of game_objects
hit_all(g, bs) ==
    IF bs = {} \/ g.raised THEN g
    ELSE LET b == CHOOSE c \in bs : TRUE
         IN  hit_all(hit(g, b), bs \ {b})

----------------------------------------------------------------------------
(* Ball *)

\* Ball.__init__
NewBall(item, x, y) ==
    [item |-> item,
     pos |-> << x - Px(radius), y - Px(radius), x + Px(radius), y + Px(radius) >>,
     direction |-> << 1, -1 >>,
     speed |-> Some(BallSpeed)]

\* Ball.collide, lines 158-172: the new direction
collide_direction(g, game_objects) ==
    LET position == g.ball[1].pos
        x2 == position[1] + position[3]      \* twice x, the centre
        d == g.ball[1].direction
    IN  IF Cardinality(game_objects) > 1 THEN << d[1], -d[2] >>
        ELSE IF Cardinality(game_objects) = 1 THEN
            LET obj_pos == get_position(g, CHOOSE o \in game_objects : TRUE)
            IN  IF x2 > 2 * obj_pos[3] THEN << 1, d[2] >>
                ELSE IF x2 < 2 * obj_pos[1] THEN << -1, d[2] >>
                ELSE << d[1], -d[2] >>
        ELSE d

\* Ball.collide
collide(g, game_objects) ==
    hit_all([g EXCEPT !.ball[1].direction = collide_direction(g, game_objects)],
            { o.at : o \in { p \in game_objects : p.kind = "Brick" } })

\* Ball.update, lines 149-152: the direction after the wall tests
update_direction(position, d) ==
    << IF position[1] <= 0 \/ position[3] >= winfo_width THEN -d[1] ELSE d[1],
       IF position[2] <= 0 THEN -d[2] ELSE d[2] >>

\* Ball.update moving by the direction it had before the wall tests
update_stale(g) ==
    LET b == g.ball[1]
        d == update_direction(b.pos, b.direction)
    IN  IF b.speed = None
        THEN [g EXCEPT !.ball[1].direction = d, !.raised = TRUE]
        ELSE [g EXCEPT !.ball[1].direction = d,
                       !.ball[1].pos = move(b.pos,
                                            Px(b.direction[1] * b.speed[1]),
                                            Px(b.direction[2] * b.speed[1]))]

\* Ball.update.  With speed None the multiplication raises TypeError and the
\* callback ends there: the direction is already changed, nothing has moved.
update(g) ==
    LET b == g.ball[1]
        d == update_direction(b.pos, b.direction)
    IN  IF b.speed = None
        THEN [g EXCEPT !.ball[1].direction = d, !.raised = TRUE]
        ELSE [g EXCEPT !.ball[1].direction = d,
                       !.ball[1].pos = move(b.pos, Px(d[1] * b.speed[1]),
                                                   Px(d[2] * b.speed[1]))]

----------------------------------------------------------------------------
(* Paddle *)

\* Paddle.slide testing the right bound only
slide_paddle_right_only(coordinates, offset) ==
    IF coordinates[3] + offset <= winfo_width
    THEN move(coordinates, offset, 0)
    ELSE coordinates

\* Paddle.slide, lines 199-202: the paddle's coordinates afterwards
slide_paddle(coordinates, offset) ==
    IF coordinates[1] + offset >= 0 /\ coordinates[3] + offset <= winfo_width
    THEN move(coordinates, offset, 0)
    ELSE coordinates

\* Paddle.slide moving Game.ball whether or not the paddle carries it
slide_carries(g, offset) ==
    [g EXCEPT !.paddle = slide_paddle(g.paddle, offset),
              !.ball[1].pos = move(g.ball[1].pos, offset, 0)]

\* Paddle.slide.  Paddle.ball, when set, is the object Game.ball.
slide(g, offset) ==
    LET p == [g EXCEPT !.paddle = slide_paddle(g.paddle, offset)]
    IN  IF g.paddle_ball # None
        THEN [p EXCEPT !.ball[1].pos = move(g.ball[1].pos, offset, 0)]
        ELSE p

----------------------------------------------------------------------------
(* Game *)

\* Game.draw_text: canvas.create_text; the new item is the result's created
draw_text(g, t) ==
    [g EXCEPT !.created = g.created + 1,
              !.texts = (g.created + 1) :> t @@ g.texts]

\* canvas.delete of a text item; deleting an item that is gone does nothing
delete_text(g, item) ==
    [g EXCEPT !.texts = [i \in DOMAIN g.texts \ {item} |-> g.texts[i]]]

\* 'Lives: %s' % self.lives
LivesText(n) == << "Lives: ", n >>

\* Game.update_lives_text
update_lives_text(g) ==
    IF g.hud = None
    THEN LET d == draw_text(g, LivesText(g.lives))
         IN  [d EXCEPT !.hud = Some(d.created)]
    ELSE IF g.hud[1] \in DOMAIN g.texts
         THEN [g EXCEPT !.texts[g.hud[1]] = LivesText(g.lives)]
         ELSE g

\* Game.add_ball without the delete of lines 48-49
add_ball_keeps_old(g) ==
    LET paddle_pos == g.paddle
        x == (paddle_pos[1] + paddle_pos[3]) \div 2
        item == g.created + 1
    IN  [g EXCEPT !.created = item,
                  !.ovals = g.ovals \cup {item},
                  !.ball = Some(NewBall(item, x, Px(BallY))),
                  !.paddle_ball = Some(item)]

\* Game.add_ball.  The paddle is 80 pixels wide, so the sum of its two x
\* coordinates in half pixels is even and the halving is exact.
add_ball(g) ==
    LET d == IF g.ball # None
             THEN [g EXCEPT !.ovals = g.ovals \ {g.ball[1].item}]
             ELSE g
        paddle_pos == d.paddle
        x == (paddle_pos[1] + paddle_pos[3]) \div 2
        item == d.created + 1
    IN  [d EXCEPT !.created = item,
                  !.ovals = d.ovals \cup {item},
                  !.ball = Some(NewBall(item, x, Px(BallY))),
                  !.paddle_ball = Some(item)]

\* Game.setup_game
setup_game(g) ==
    LET t == draw_text(update_lives_text(add_ball(g)),
                       << "Press Space to start" >>)
    IN  [t EXCEPT !.text = Some(t.created), !.space_bound = TRUE]

\* tkinter's Misc.after(ms, func): with func None it sleeps for ms and
\* registers nothing; otherwise it registers func to be called after ms.
after(g, ms, func) ==
    IF func = None THEN g
    ELSE [g EXCEPT !.pending = Append(g.pending, [ms |-> ms, func |-> func[1]])]

\* Game.check_collisions
check_collisions(g) ==
    collide(g, find_overlapping(g, g.ball[1].pos))

\* What game_loop leaves in last: the ball, the overlapping objects and the
\* lives it started with, the direction Ball.collide left, and the branch
\* it ended in ("raised" until a branch completes).
Seen(g, c) ==
    [ball |-> g.ball[1], objects |-> find_overlapping(g, g.ball[1].pos),
     collided |-> c.ball[1].direction, lives |-> g.lives, branch |-> "raised"]

Did(g, branch) == [g EXCEPT !.last.branch = branch]

\* Game.game_loop, lines 78-79, with <= 1 for == 0
no_bricks_but_one(c) == Cardinality(c.bricks) <= 1

\* Game.game_loop, lines 78-79: num_bricks == 0
no_bricks(c) == Cardinality(c.bricks) = 0

\* Game.game_loop, line 82: the ball's bottom edge against the height option
ball_out(c) == c.ball[1].pos[4] >= Px(height)

\* Game.game_loop without the assignments of lines 80 and 83
stop_ball_skipped(c) == c

\* Game.game_loop, lines 80 and 83: self.ball.speed = None
stop_ball(c) == [c EXCEPT !.ball[1].speed = None]

\* Game.game_loop, line 85, with < for <=
out_of_lives_strict(l) == l.lives < 0

\* Game.game_loop, line 85
out_of_lives(l) == l.lives <= 0

\* Game.game_loop, lines 80-81
win(c) == Did(draw_text(stop_ball(c), << "You win!" >>), "win")

\* Game.game_loop, lines 83-88.  self.after(1000, self.setup_game()) calls
\* setup_game at once and passes on what it returns, which is None.
lose_ball(c) ==
    LET l == [stop_ball(c) EXCEPT !.lives = c.lives - 1]
    IN  IF out_of_lives(l)
        THEN Did(draw_text(l, << "Game Over" >>), "over")
        ELSE Did(after(setup_game(l), ResetDelay, None), "lost")

\* Game.game_loop, lines 90-91
advance(c) ==
    LET u == update(c)
    IN  IF u.raised THEN u
        ELSE Did(after(u, TickDelay, Some("game_loop")), "move")

\* Game.game_loop.  An exception raised on the way ends the callback there.
game_loop(g) ==
    LET k == check_collisions(g)
        c == [k EXCEPT !.last = Seen(g, k)]
    IN  IF c.raised THEN c
        ELSE IF no_bricks(c) THEN win(c)
        ELSE IF ball_out(c) THEN lose_ball(c)
        ELSE advance(c)

\* Game.start_game without the unbind of line 71
start_game_still_bound(g) ==
    LET u == [g EXCEPT !.paddle_ball = None]
    IN  game_loop(IF g.text = None THEN u ELSE delete_text(u, g.text[1]))

\* Game.start_game without the assignment of line 73
start_game_keeps_ball(g) ==
    LET u == [g EXCEPT !.space_bound = FALSE]
    IN  game_loop(IF g.text = None THEN u ELSE delete_text(u, g.text[1]))

\* Game.start_game
start_game(g) ==
    LET u == [g EXCEPT !.space_bound = FALSE, !.paddle_ball = None]
    IN  game_loop(IF g.text = None THEN u ELSE delete_text(u, g.text[1]))

----------------------------------------------------------------------------
(* The state as one record, and back *)

Game == [lives |-> lives, hud |-> hud, text |-> text, texts |-> texts,
         created |-> created, space_bound |-> space_bound,
         pending |-> pending, paddle |-> paddle, paddle_ball |-> paddle_ball,
         ball |-> ball, ovals |-> ovals, hits |-> hits, bricks |-> bricks,
         raised |-> raised, last |-> last]

Becomes(g) ==
    /\ lives' = g.lives
    /\ hud' = g.hud
    /\ text' = g.text
    /\ texts' = g.texts
    /\ created' = g.created
    /\ space_bound' = g.space_bound
    /\ pending' = g.pending
    /\ paddle' = g.paddle
    /\ paddle_ball' = g.paddle_ball
    /\ ball' = g.ball
    /\ ovals' = g.ovals
    /\ hits' = g.hits
    /\ bricks' = g.bricks
    /\ raised' = g.raised
    /\ last' = g.last

\* No run of game_loop yet
NoLast == [branch |-> "none"]

\* Game.__init__ up to the call of setup_game: the paddle is item 1 and the
\* bricks are the items after it.
Constructed ==
    [lives |-> InitLives, hud |-> None, text |-> None, texts |-> << >>,
     created |-> 1 + Cardinality(Bricks), space_bound |-> FALSE,
     pending |-> << >>, paddle |-> PaddleInit, paddle_ball |-> None,
     ball |-> None, ovals |-> {}, hits |-> [b \in Bricks |-> InitHits(b)],
     bricks |-> Bricks, raised |-> FALSE, last |-> NoLast]

\* Game.__init__
Init ==
    LET g == setup_game(Constructed)
    IN  /\ lives = g.lives
        /\ hud = g.hud
        /\ text = g.text
        /\ texts = g.texts
        /\ created = g.created
        /\ space_bound = g.space_bound
        /\ pending = g.pending
        /\ paddle = g.paddle
        /\ paddle_ball = g.paddle_ball
        /\ ball = g.ball
        /\ ovals = g.ovals
        /\ hits = g.hits
        /\ bricks = g.bricks
        /\ raised = g.raised
        /\ last = g.last

\* Every callback starts with no exception in flight.
Entered == [Game EXCEPT !.raised = FALSE]

\* How far the ball a paddle carries is from the paddle's centre, in slide
\* steps, after a slide by offset
Carried(g) ==
    LET c == (g.ball[1].pos[1] + g.ball[1].pos[3])
             - (g.paddle[1] + g.paddle[3])
    IN  IF c < 0 THEN (0 - c) \div (2 * Px(SlideStep))
        ELSE c \div (2 * Px(SlideStep))

\* <Left>: self.paddle.slide(-10)
Left ==
    LET g == slide(Entered, 0 - Px(SlideStep))
    IN  /\ (paddle_ball # None => Carried(g) <= MaxCarry)
        /\ Becomes(g)

\* <Right>: self.paddle.slide(+10)
Right ==
    LET g == slide(Entered, Px(SlideStep))
    IN  /\ (paddle_ball # None => Carried(g) <= MaxCarry)
        /\ Becomes(g)

\* <space>, while bound: self.start_game()
Space ==
    /\ space_bound
    /\ Becomes(start_game(Entered))

\* The mainloop runs the first registered after-callback.
Tick ==
    /\ pending # << >>
    /\ Head(pending).func = "game_loop"
    /\ Becomes(game_loop([Entered EXCEPT !.pending = Tail(pending)]))

Next == Left \/ Right \/ Space \/ Tick

Spec == Init /\ [][Next]_vars

----------------------------------------------------------------------------
(* What the claims speak of *)

\* A text item showing t is on the canvas.
Drawn(t) == \E i \in DOMAIN texts : texts[i] = t

Won == Drawn(<< "You win!" >>)
Over == Drawn(<< "Game Over" >>)

\* Twice the x of the centre of a rectangle
Centre2(pos) == pos[1] + pos[3]

\* This step ran game_loop: no two runs leave the same record, as the ball
\* each starts from differs.
Ticked == last' # last

----------------------------------------------------------------------------
(* C1 *)

PaddleInBounds ==
    /\ paddle[1] >= 0
    /\ paddle[3] <= winfo_width
    /\ paddle[2] = PaddleInit[2]
    /\ paddle[4] = PaddleInit[4]

\* C1: the paddle's left edge is never below 0 and its right edge never
\* beyond the canvas width (the width Paddle.slide reads), its vertical
\* coordinates never change, and a step changes its position by one slide
\* step to the left or to the right or not at all: a slide that would cross
\* a bound changes nothing.
C1_PaddleInBounds ==
    /\ []PaddleInBounds
    /\ [][paddle' # paddle =>
            \/ paddle' = move(paddle, Px(SlideStep), 0)
            \/ paddle' = move(paddle, 0 - Px(SlideStep), 0)]_vars

\* C1 witness: the paddle stands less than a slide step from the left wall
\* and a further <Left> has carried the waiting ball on while the paddle
\* stayed.
C1_BlockedAtWall ==
    /\ paddle_ball # None
    /\ paddle[1] < Px(SlideStep)
    /\ Centre2(ball[1].pos) < Centre2(paddle)

----------------------------------------------------------------------------
(* C2 *)

\* C2: a brick is on the canvas exactly while its counter is above 0, the
\* counter stays between 0 and its initial value, a step lowers it by 1 or
\* leaves it, and a brick that is off the canvas is neither among the
\* objects a run of game_loop collides with nor hit again.
C2_BrickLifecycle ==
    /\ [](\A b \in Bricks : /\ b \in bricks <=> hits[b] > 0
                            /\ hits[b] \in 0..InitHits(b))
    /\ [][\A b \in Bricks :
            /\ hits'[b] \in { hits[b], hits[b] - 1 }
            /\ b \notin bricks =>
                  /\ hits'[b] = hits[b]
                  /\ Ticked => BrickObj(b) \notin last'.objects]_vars

\* C2 witness: one brick is gone and another is damaged and still there.
C2_GoneAndDamaged ==
    /\ \E b \in Bricks : hits[b] = 0 /\ b \notin bricks
    /\ \E b \in bricks : hits[b] > 0 /\ hits[b] < InitHits(b)

----------------------------------------------------------------------------
(* C3 *)

\* C3: lives starts at 3 and stays in 0..3; a step changes it only by
\* lowering it by 1, and does so exactly when it runs game_loop with the
\* ball's bottom edge at or below the canvas height and a brick left after
\* the collisions; 'Game Over' is on the canvas exactly when lives is 0, and
\* it is drawn in the step that brings lives from 1 to 0.
C3_LivesAccounting ==
    /\ lives = InitLives
    /\ [](lives \in 0..InitLives /\ (Over <=> lives = 0))
    /\ [][/\ lives' # lives =>
                /\ lives' = lives - 1
                /\ Ticked
                /\ last'.branch \in { "lost", "over" }
                /\ bricks' # {}
                /\ ball[1].pos[4] >= Px(height)
          /\ (Ticked /\ bricks' # {} /\ ball[1].pos[4] >= Px(height)) =>
                lives' = lives - 1
          /\ (Over' /\ ~Over) => (lives = 1 /\ lives' = 0)]_vars

\* C3 witness: the last life has been lost and 'Game Over' drawn.
C3_GameOver == Over /\ lives = 0 /\ last.branch = "over"

----------------------------------------------------------------------------
(* C4 *)

\* C4: a run of game_loop that leaves no brick on the canvas enters the won
\* state: the ball's speed is None, 'You win!' is drawn, no run is
\* registered and lives is what it was; and 'You win!' is on the canvas
\* only when no brick is.
C4_WinCondition ==
    /\ [](Won <=> bricks = {})
    /\ [](Won => /\ ball[1].speed = None
                 /\ pending = << >>
                 /\ last.branch = "win"
                 /\ lives = last.lives)
    /\ [][(Ticked /\ bricks' = {}) =>
            /\ Won'
            /\ lives' = lives
            /\ ball'[1].speed = None
            /\ pending' = << >>]_vars

\* C4 witness: the last brick has been destroyed.
C4_Won == Won /\ bricks = {} /\ last.branch = "win"

\* The ball that destroys the last brick overlaps it, so it is far above the
\* bottom of the canvas: no run of game_loop meets both tests of lines 79
\* and 82 at once.
WinAboveBottom == Won => ball[1].pos[4] < Px(height)

----------------------------------------------------------------------------
(* C5 *)

\* C5: a run of game_loop collides the ball where it stood when the run
\* began.  It ends in the moving branch exactly when a brick is left and the
\* ball's bottom edge is above the canvas height; the ball is then moved by
\* its direction times 10 pixels on each axis and exactly one run of
\* game_loop is registered, 50 ms on.  In every other run the ball it
\* started with is not moved and nothing is registered.
C5_TickOrdering ==
    [][Ticked =>
        /\ last'.ball = ball[1]
        /\ last'.objects = find_overlapping(Game, ball[1].pos)
        /\ last'.branch \in { "win", "over", "lost", "move" }
        /\ last'.branch = "move" <=>
              (bricks' # {} /\ ball[1].pos[4] < Px(height))
        /\ last'.branch = "move" =>
              /\ ball'[1].item = ball[1].item
              /\ ball'[1].direction \in { -1, 1 } \X { -1, 1 }
              /\ ball'[1].pos = move(ball[1].pos,
                                     Px(BallSpeed) * ball'[1].direction[1],
                                     Px(BallSpeed) * ball'[1].direction[2])
              /\ pending' = << [ms |-> TickDelay, func |-> "game_loop"] >>
        /\ last'.branch \in { "win", "over" } =>
              /\ ball'[1].item = ball[1].item
              /\ ball'[1].pos = ball[1].pos
              /\ pending' = << >>
        /\ last'.branch = "lost" =>
              /\ ball[1].item \notin ovals'
              /\ ball'[1].item # ball[1].item
              /\ pending' = << >>]_vars

\* C5 witness: a run has moved the ball off a wall (Ball.update turned the
\* direction Ball.collide left) and registered the next run.
C5_MovedOffWall ==
    /\ last.branch = "move"
    /\ Len(pending) = 1
    /\ ball[1].direction # last.collided

----------------------------------------------------------------------------
(* C6 *)

\* C6: at most one callback is registered and it is game_loop; <space> is
\* bound only while none is registered; and <space> becomes bound only in a
\* run of game_loop that lost a ball with lives left (the run that calls
\* setup_game).
C6_SingleLoop ==
    /\ [](/\ Len(pending) <= 1
          /\ \A i \in DOMAIN pending : pending[i].func = "game_loop"
          /\ space_bound => pending = << >>)
    /\ [][(space_bound' /\ ~space_bound) =>
            (Ticked /\ last'.branch = "lost")]_vars

\* C6 witness: a second round is running: <space> was bound again by
\* setup_game, pressed, and unbound, and one run of game_loop is registered.
C6_SecondRound ==
    /\ Len(pending) = 1
    /\ ~space_bound
    /\ lives < InitLives

----------------------------------------------------------------------------
(* C7 *)

\* C7: both components of the ball's direction are -1 or +1; the speed of
\* Game.ball is 10 until a run of game_loop ends the game and None from
\* then on; no callback raises; and every run of game_loop starts with a
\* ball that is on the canvas and has speed 10, so Ball.update never meets
\* the speed None.
C7_BallMotion ==
    /\ [](/\ ball # None
          /\ ball[1].direction \in { -1, 1 } \X { -1, 1 }
          /\ ball[1].speed \in { None, Some(BallSpeed) }
          /\ ball[1].speed = None <=> (Won \/ Over)
          /\ ball[1].item \in ovals
          /\ ~raised)
    /\ [][Ticked => /\ ball[1].speed = Some(BallSpeed)
                    /\ last'.branch # "raised"]_vars

\* C7 witness: the ball of a later round, moving down and to the left after
\* bounces.
C7_Deflected ==
    /\ last.branch = "move"
    /\ lives < InitLives
    /\ ball[1].speed = Some(BallSpeed)
    /\ ball[1].direction = << -1, 1 >>

----------------------------------------------------------------------------
(* C8 *)

\* C8: whenever the objects a run of game_loop found overlapping the ball
\* include a Brick, Ball.collide left the ball's y direction negated.
C8_BrickFlipsY ==
    (last.branch # "none" /\ \E o \in last.objects : o.kind = "Brick") =>
        last.collided[2] = 0 - last.ball.direction[2]

----------------------------------------------------------------------------
(* C9 *)

\* C9: after a run of game_loop that found the paddle, and nothing else,
\* overlapping the ball, with the x of the ball's centre within the paddle's
\* horizontal extent, the ball's y direction is -1 (upward).
C9_PaddleDeflectsUp ==
    [][(/\ Ticked
        /\ last'.objects = { PaddleObj }
        /\ Centre2(ball[1].pos) >= 2 * paddle[1]
        /\ Centre2(ball[1].pos) <= 2 * paddle[3]) =>
            ball'[1].direction[2] = -1]_vars

----------------------------------------------------------------------------
(* C10 *)

Ended == Won \/ Over

\* C10: 'You win!' and 'Game Over' are never both on the canvas; once either
\* is, no callback is registered and <space> is not bound, and every later
\* step leaves that so, runs no game_loop, and changes neither lives, nor a
\* brick, nor the ball, nor a text: only the paddle may move.
C10_TerminalAbsorbing ==
    /\ [](~(Won /\ Over))
    /\ [](Ended => (pending = << >> /\ ~space_bound))
    /\ [][Ended =>
            /\ Ended'
            /\ ~Ticked
            /\ lives' = lives
            /\ hits' = hits
            /\ bricks' = bricks
            /\ ball' = ball
            /\ ovals' = ovals
            /\ texts' = texts
            /\ pending' = pending
            /\ space_bound' = space_bound]_vars

\* C10 witness: the game is over and the paddle stands at the left wall,
\* from where both a blocked and a free slide follow.
C10_OverAtWall ==
    /\ Over
    /\ ~Won
    /\ last.branch = "over"
    /\ paddle[1] = 0

----------------------------------------------------------------------------
(* C11 *)

\* C11: while the ball waits on the paddle (Paddle.ball is set, <space> is
\* bound), the x of the ball's centre is the x of the paddle's centre.
C11_BallRidesPaddle ==
    (paddle_ball # None /\ space_bound) =>
        Centre2(ball[1].pos) = Centre2(paddle)

----------------------------------------------------------------------------
(* C12 *)

\* The left wall, which does not rest on what winfo_width is
C12_LeftWall == paddle_ball = None => ball[1].pos[1] >= 0

\* The right wall
C12_RightWall == paddle_ball = None => ball[1].pos[3] <= winfo_width

\* The top
C12_Top == paddle_ball = None => ball[1].pos[2] >= 0

\* A run of Ball.update that finds the ball at a wall leaves its direction
\* pointing away from that wall.
C12_BouncesAway ==
    [][(Ticked /\ last'.branch = "move") =>
        /\ ball[1].pos[1] <= 0 => ball'[1].direction[1] = 1
        /\ ball[1].pos[3] >= winfo_width => ball'[1].direction[1] = -1
        /\ ball[1].pos[2] <= 0 => ball'[1].direction[2] = 1]_vars

\* C12: once a round's first run of game_loop has begun (the ball is off the
\* paddle), the ball's left and top edges are at or above 0 and its right
\* edge is at or below the canvas width, and a run of Ball.update that finds
\* the ball at a wall leaves its direction pointing away from that wall.
C12_BallInsideWalls ==
    /\ []C12_LeftWall
    /\ []C12_RightWall
    /\ []C12_Top
    /\ C12_BouncesAway

----------------------------------------------------------------------------
(* C13 *)

\* C13: between callbacks the lives text shows the value of lives.
C13_HudMatchesLives ==
    /\ hud # None
    /\ hud[1] \in DOMAIN texts
    /\ texts[hud[1]] = LivesText(lives)

----------------------------------------------------------------------------
(* C14 *)

Prompt == Drawn(<< "Press Space to start" >>)

\* C14: a run of game_loop that finds the ball at the bottom with a brick
\* left and more than one life resets the round; after it the old ball is
\* off the canvas and the one ball on it is new, centred on the paddle at
\* y = 310 with direction [1, -1] and speed 10 and carried by the paddle,
\* the start prompt is shown, <space> is bound, nothing is registered, and
\* no brick has changed.  While <space> is bound no run is registered.
C14_Respawn ==
    /\ [](space_bound => (pending = << >> /\ Prompt))
    /\ [][/\ (Ticked /\ bricks' # {} /\ ball[1].pos[4] >= Px(height)
                     /\ lives > 1) => last'.branch = "lost"
          /\ (Ticked /\ last'.branch = "lost") =>
                /\ lives' = lives - 1
                /\ lives' > 0
                /\ ball[1].item \notin ovals'
                /\ ovals' = { ball'[1].item }
                /\ Centre2(ball'[1].pos) = Centre2(paddle')
                /\ ball'[1].pos[3] - ball'[1].pos[1] = 2 * Px(radius)
                /\ ball'[1].pos[2] = Px(BallY) - Px(radius)
                /\ ball'[1].pos[4] = Px(BallY) + Px(radius)
                /\ ball'[1].direction = << 1, -1 >>
                /\ ball'[1].speed = Some(BallSpeed)
                /\ paddle_ball' = Some(ball'[1].item)
                /\ Prompt'
                /\ space_bound'
                /\ pending' = << >>
                /\ hits' = hits
                /\ bricks' = bricks]_vars

\* C14 witness: the second ball has been lost with bricks damaged and the
\* paddle away from where it began; the third ball waits on it.
C14_SecondRespawn ==
    /\ last.branch = "lost"
    /\ lives = 1
    /\ space_bound
    /\ paddle # PaddleInit
    /\ Centre2(ball[1].pos) = Centre2(paddle)
    /\ \E b \in Bricks : hits[b] < InitHits(b)

----------------------------------------------------------------------------
(* C15 *)

\* C15: a run of game_loop that loses a ball with lives left does not run
\* setup_game: it leaves the ball stopped, no start prompt and <space>
\* unbound, and setup_game registered to run 1000 ms on.
C15_DeferredReset ==
    [][(Ticked /\ lives' = lives - 1 /\ lives' > 0) =>
        /\ ball'[1].item = ball[1].item
        /\ ball'[1].speed = None
        /\ ~Prompt'
        /\ ~space_bound'
        /\ \E i \in DOMAIN pending' :
              pending'[i] = [ms |-> ResetDelay, func |-> "setup_game"]]_vars

----------------------------------------------------------------------------
(* C16 *)

\* C16: the paddle carries the ball (Paddle.ball is set, and is Game.ball)
\* exactly while <space> is bound; and a step that runs no game_loop, which
\* is a <Left> or a <Right>, changes neither lives, nor a brick, nor what is
\* registered, nor the bindings, nor the paddle's y, and while the paddle
\* carries no ball it changes nothing of the ball either.
C16_PaddleInputFrame ==
    /\ [](paddle_ball # None <=> space_bound)
    /\ [](paddle_ball # None => paddle_ball = Some(ball[1].item))
    /\ [][~Ticked =>
            /\ lives' = lives
            /\ hits' = hits
            /\ bricks' = bricks
            /\ pending' = pending
            /\ space_bound' = space_bound
            /\ paddle_ball' = paddle_ball
            /\ texts' = texts
            /\ paddle'[2] = paddle[2]
            /\ paddle'[4] = paddle[4]
            /\ ball'[1].direction = ball[1].direction
            /\ paddle_ball = None => ball' = ball]_vars

\* C16 witness: the first run of game_loop of the game has moved the ball
\* once, the next is registered, and the paddle is further from the ball
\* than any carrying and that one move can account for: it has slid since
\* <space>.
C16_SlidWhileRunning ==
    /\ paddle_ball = None
    /\ Len(pending) = 1
    /\ lives = InitLives
    /\ \A b \in Bricks : hits[b] = InitHits(b)
    /\ ball[1].pos[2] = Px(BallY - radius - BallSpeed)
    /\ ball[1].direction[2] = -1
    /\ \/ Centre2(ball[1].pos) - Centre2(paddle) > 4 * (MaxCarry + 1) * SlideStep
       \/ Centre2(paddle) - Centre2(ball[1].pos) > 4 * (MaxCarry + 1) * SlideStep

====
